---- MODULE Spec2Model ----
(***************************************************************************)
(* Model of ovos_tts_plugin_mimic3.Mimic3TTSPlugin                         *)
(* (src/ovos_tts_plugin_mimic3/__init__.py): the text workarounds          *)
(* (_apply_text_hacks), the WAV assembly (_mimic3_synth), the request      *)
(* routine (get_tts) with its lock, and construction (__init__) with the   *)
(* class-level default_voices table.                                       *)
(*                                                                         *)
(* A Python str is a sequence of one-character strings; None is the model  *)
(* value "None" (no text of the model is the four letters N-o-n-e as one   *)
(* character, so the two never collide).                                   *)
(***************************************************************************)
EXTENDS Integers, Sequences, FiniteSets, TLC

None == "None"

(***************************************************************************)
(* Python str primitives used by the plugin.                               *)
(***************************************************************************)

\* The characters str.strip() removes, those for which str.isspace() is true:
\* the ASCII ones (tab, newline, vertical tab, form feed, carriage return,
\* U+001C to U+001F, space), U+0085, U+00A0 and U+1680, each written as
\* itself, and the ones from U+2000 on, written by their code points.
Whitespace ==
    {"\t", "\n", "", "\f", "\r", "", "", "", "", " ", "", " ", " ",
     "U+2000", "U+2001", "U+2002", "U+2003", "U+2004", "U+2005", "U+2006",
     "U+2007", "U+2008", "U+2009", "U+200A", "U+2028", "U+2029", "U+202F",
     "U+205F", "U+3000"}

\* [A-Z] of the two regular expressions.
Upper == {"A", "B", "C", "D", "E", "F", "G", "H", "I", "J", "K", "L", "M",
          "N", "O", "P", "Q", "R", "S", "T", "U", "V", "W", "X", "Y", "Z"}

Lower == {"a", "b", "c", "d", "e", "f", "g", "h", "i", "j", "k", "l", "m",
          "n", "o", "p", "q", "r", "s", "t", "u", "v", "w", "x", "y", "z"}

Digits == {"0", "1", "2", "3", "4", "5", "6", "7", "8", "9"}

\* The characters of U+0080 to U+00FF that \w matches in a str pattern:
\* the letters and the digits of Latin-1 (str.isalnum() is true for them).
Latin1Word ==
    {"ª", "²", "³", "µ", "¹", "º", "¼", "½", "¾", "À", "Á", "Â", "Ã", "Ä",
     "Å", "Æ", "Ç", "È", "É", "Ê", "Ë", "Ì", "Í", "Î", "Ï", "Ð", "Ñ", "Ò",
     "Ó", "Ô", "Õ", "Ö", "Ø", "Ù", "Ú", "Û", "Ü", "Ý", "Þ", "ß", "à", "á",
     "â", "ã", "ä", "å", "æ", "ç", "è", "é", "ê", "ë", "ì", "í", "î", "ï",
     "ð", "ñ", "ò", "ó", "ô", "õ", "ö", "ø", "ù", "ú", "û", "ü", "ý", "þ",
     "ÿ"}

\* \w of the re module in a str pattern, on which \b is defined: a letter or
\* a digit of any script, or "_".  The texts of the model hold characters up
\* to U+00FF and whitespace.
IsWord(c) == c \in Upper \cup Lower \cup Digits \cup {"_"} \cup Latin1Word

\* str.startswith(prefix)
startswith(s, prefix) ==
    /\ Len(s) >= Len(prefix)
    /\ SubSeq(s, 1, Len(prefix)) = prefix

\* str.endswith(suffix)
endswith(s, suffix) ==
    /\ Len(s) >= Len(suffix)
    /\ SubSeq(s, Len(s) - Len(suffix) + 1, Len(s)) = suffix

\* str.lstrip()
RECURSIVE lstrip(_)
lstrip(s) ==
    IF s /= <<>> /\ Head(s) \in Whitespace THEN lstrip(Tail(s)) ELSE s

\* str.rstrip()
RECURSIVE rstrip(_)
rstrip(s) ==
    IF s /= <<>> /\ s[Len(s)] \in Whitespace
    THEN rstrip(SubSeq(s, 1, Len(s) - 1))
    ELSE s

\* str.strip()
strip(s) == rstrip(lstrip(s))

\* str.replace(old, new) for a non-empty old: occurrences are taken left to
\* right and do not overlap.
RECURSIVE replace(_, _, _)
replace(s, old, new) ==
    IF s = <<>> THEN <<>>
    ELSE IF startswith(s, old)
         THEN new \o replace(SubSeq(s, Len(old) + 1, Len(s)), old, new)
         ELSE <<Head(s)>> \o replace(Tail(s), old, new)

\* str.split(sep)[0] for a one-character sep: the text before the first sep.
RECURSIVE split_first(_, _)
split_first(s, sep) ==
    IF s = <<>> \/ Head(s) = sep THEN <<>>
    ELSE <<Head(s)>> \o split_first(Tail(s), sep)

(***************************************************************************)
(* _apply_text_hacks                                                       *)
(***************************************************************************)

AM == <<" ", "a", ".", "m", ".">>
PM == <<" ", "p", ".", "m", ".">>

\* The regular expression's $ at 1-based position q (the position of the
\* next character to read): the end of the string, or just before a newline
\* that ends the string.
AtDollar(s, q) ==
    \/ q = Len(s) + 1
    \/ q = Len(s) /\ s[q] = "\n"

\* \b with an [A-Z] at position i: the character before i is no word
\* character.
AtWordStart(s, i) == i = 1 \/ ~IsWord(s[i - 1])

\* The position after the longest run of ([A-Z](?: |$)) units that starts at
\* p, and the number of units in it, as <<end, units>>.
RECURSIVE AcronymRun(_, _)
AcronymRun(s, p) ==
    IF p > Len(s) \/ s[p] \notin Upper THEN <<p, 0>>
    ELSE IF p + 1 <= Len(s) /\ s[p + 1] = " "
         THEN LET rest == AcronymRun(s, p + 2)
              IN  <<rest[1], rest[2] + 1>>
         ELSE IF AtDollar(s, p + 1) THEN <<p + 1, 1>>
              ELSE <<p, 0>>

\* AcronymRepl without the closing period and space.
AcronymRepl_NoTrailer(m) == replace(strip(m), <<" ">>, <<".">>)

\* lambda m: m.group(0).strip().replace(" ", ".") + ". "
AcronymRepl(m) == replace(strip(m), <<" ">>, <<".">>) \o <<".", " ">>

\* re.sub(r"\b([A-Z](?: |$)){2,}", AcronymRepl, s), from position i on.
RECURSIVE AcronymSubFrom(_, _)
AcronymSubFrom(s, i) ==
    IF i > Len(s) THEN <<>>
    ELSE LET run == IF AtWordStart(s, i) THEN AcronymRun(s, i) ELSE <<i, 0>>
         IN  IF run[2] >= 2
             THEN AcronymRepl(SubSeq(s, i, run[1] - 1))
                      \o AcronymSubFrom(s, run[1])
             ELSE <<s[i]>> \o AcronymSubFrom(s, i + 1)

AcronymSub(s) == AcronymSubFrom(s, 1)

SayAsOpen ==
    <<"<", "s", "a", "y", "-", "a", "s", " ",
      "i", "n", "t", "e", "r", "p", "r", "e", "t", "-", "a", "s", "=",
      "\"", "s", "p", "e", "l", "l", "-", "o", "u", "t", "\"", ">">>

SayAsClose == <<"<", "/", "s", "a", "y", "-", "a", "s", ">">>

\* f'<say-as interpret-as="spell-out">{letter}</say-as>'
SpellOut(letter) == SayAsOpen \o <<letter>> \o SayAsClose

\* True when the pattern '([A-Z])' matches at the start of s.
QuotedMatch(s) == Len(s) >= 3 /\ s[1] = "'" /\ s[2] \in Upper /\ s[3] = "'"

\* The text re.subn returns: matches are found left to right, do not
\* overlap, and each is replaced by SpellOut of its letter.
RECURSIVE QuotedSubnText(_)
QuotedSubnText(s) ==
    IF s = <<>> THEN <<>>
    ELSE IF QuotedMatch(s)
         THEN SpellOut(s[2]) \o QuotedSubnText(SubSeq(s, 4, Len(s)))
         ELSE <<Head(s)>> \o QuotedSubnText(Tail(s))

\* The number of substitutions re.subn reports.
RECURSIVE QuotedSubnCount(_)
QuotedSubnCount(s) ==
    IF s = <<>> THEN 0
    ELSE IF QuotedMatch(s)
         THEN QuotedSubnCount(SubSeq(s, 4, Len(s))) + 1
         ELSE QuotedSubnCount(Tail(s))

\* re.subn with count=1: only the first quoted letter is replaced.
QuotedSubn_FirstOnly(s) ==
    LET at == {i \in 1..Len(s) : QuotedMatch(SubSeq(s, i, Len(s)))}
    IN  IF at = {} THEN <<s, 0>>
        ELSE LET i == CHOOSE k \in at : \A j \in at : k <= j
             IN  <<SubSeq(s, 1, i - 1) \o SpellOut(s[i + 1])
                       \o SubSeq(s, i + 3, Len(s)), 1>>

\* re.subn(r"'([A-Z])'", SpellOut, s) as <<text, subs_made>>.
QuotedSubn(s) == <<QuotedSubnText(s), QuotedSubnCount(s)>>

\* Rewritten without line 117: " p.m." is left as it is.
Rewritten_OnlyAM(sentence) == AcronymSub(replace(sentence, AM, AM \o <<" ">>))

\* The sentence after the a.m./p.m. and acronym rewrites (lines 116-124).
Rewritten(sentence) ==
    AcronymSub(replace(replace(sentence, AM, AM \o <<" ">>), PM, PM \o <<" ">>))

\* LooksLikeSsml without the strip.
LooksLikeSsml_NoStrip(s) == startswith(s, <<"<">>)

\* sentence.strip().startswith("<")
LooksLikeSsml(s) == startswith(strip(s), <<"<">>)

\* IsLetterSemicolon with startswith for endswith.
IsLetterSemicolon_Starts(s) == Len(s) = 2 /\ startswith(s, <<";">>)

\* (len(sentence) == 2) and sentence.endswith(";")
IsLetterSemicolon(s) == Len(s) = 2 /\ endswith(s, <<";">>)

\* _apply_text_hacks(sentence) -> (text, ssml)
apply_text_hacks(sentence) ==
    LET s == Rewritten(sentence)
    IN  IF IsLetterSemicolon(s)
        THEN <<SpellOut(s[1]), TRUE>>
        ELSE LET sub == QuotedSubn(s)
             IN  <<sub[1], IF sub[2] > 0 THEN TRUE ELSE LooksLikeSsml(s)>>

(***************************************************************************)
(* Optional values.  A Python value that may be None is held as a string   *)
(* (None is "None") when it is a voice or speaker name, as a sequence of   *)
(* characters (None is NoneStr) when it is a text the code reads, and as a *)
(* sequence of at most one element when it is a structure.                 *)
(***************************************************************************)

\* None where a text is expected: no text holds a four-letter character.
NoneStr == <<"None">>

\* Python truthiness of an optional name: neither None nor "".
Truthy(x) == x /= None /\ x /= ""

\* Python truthiness of an optional text.
TruthyStr(s) == s /= NoneStr /\ s /= <<>>

\* a or b
OrElse(a, b) == IF TruthyStr(a) THEN a ELSE b

(***************************************************************************)
(* The class attribute default_voices.                                     *)
(***************************************************************************)

EN    == <<"e", "n">>
EN_US == <<"e", "n", "-", "u", "s">>
EN_UK == <<"e", "n", "-", "u", "k">>
EN_GB == <<"e", "n", "-", "g", "b">>
EN_NZ == <<"e", "n", "-", "n", "z">>
DE    == <<"d", "e">>
DE_DE == <<"d", "e", "-", "d", "e">>
XX_YY == <<"x", "x", "-", "y", "y">>

\* Mimic3TTSPlugin.default_voices as the class statement leaves it.
BaseDefaultVoices ==
    (EN :> "en_US/cmu-arctic_low")
    @@ (EN_UK :> "en_UK/apope_low")
    @@ (EN_GB :> "en_UK/apope_low")
    @@ (DE :> "de_DE/thorsten_low")
    @@ (<<"b", "n">> :> "bn/multi_low")
    @@ (<<"a", "f">> :> "af_ZA/google-nwu_low")
    @@ (<<"e", "s">> :> "es_ES/m-ailabs_low")
    @@ (<<"f", "a">> :> "fa/haaniye_low")
    @@ (<<"f", "i">> :> "fi_FI/harri-tapani-ylilammi_low")
    @@ (<<"f", "r">> :> "fr_FR/m-ailabs_low")
    @@ (<<"i", "t">> :> "it_IT/mls_low")
    @@ (<<"k", "o">> :> "ko_KO/kss_low")
    @@ (<<"n", "l">> :> "nl/bart-de-leeuw_low")
    @@ (<<"p", "l">> :> "pl_PL/m-ailabs_low")
    @@ (<<"r", "u">> :> "ru_RU/multi_low")
    @@ (<<"u", "k">> :> "uk_UK/m-ailabs_low")

\* d[k] = v on a dict.
DictSet(d, k, v) == [x \in DOMAIN d \cup {k} |-> IF x = k THEN v ELSE d[x]]

\* d.get(k)
DictGet(d, k) == IF k \in DOMAIN d THEN d[k] ELSE None

\* LookupKey without the fallback to the primary subtag.
LookupKey_NoFallback(d, lang) == lang

\* if lang not in self.default_voices: lang = lang.split("-")[0]
LookupKey(d, lang) == IF lang \notin DOMAIN d THEN split_first(lang, "-") ELSE lang

(***************************************************************************)
(* The engine (mimic3_tts), a black box: what it yields is its own choice. *)
(***************************************************************************)

\* The most results one synthesis yields.
MaxResults == 2

\* An AudioResult.
AudioResult(rate, width, channels, bytes) ==
    [kind |-> "audio", sample_rate_hz |-> rate, sample_width_bytes |-> width,
     num_channels |-> channels, audio_bytes |-> bytes]

\* A result that is no AudioResult (a MarkResult).
MarkResult ==
    [kind |-> "mark", sample_rate_hz |-> 0, sample_width_bytes |-> 0,
     num_channels |-> 0, audio_bytes |-> <<>>]

\* isinstance(result, AudioResult)
IsAudioResult(result) == result.kind = "audio"

\* What the engine may yield in a request.
Results == {AudioResult(16000, 2, 1, <<7, 8>>), MarkResult}

\* One synthesis by the engine: the results it yields in order, and whether
\* it then raises instead of finishing.
EngineRuns ==
    [results : UNION {[1..n -> Results] : n \in 0..MaxResults},
     raises : BOOLEAN]

EngineError == "EngineError"
WaveError == "wave.Error"

(***************************************************************************)
(* _mimic3_synth: the WAV assembly.                                        *)
(***************************************************************************)

FallbackFramerate == 22050
FallbackSampwidth == 2
FallbackNchannels == 1

\* wave.open(wav_io, "wb"): a container with no parameter set and no frame.
NewWave == [framerate |-> 0, sampwidth |-> 0, nchannels |-> 0, data |-> <<>>]

\* setframerate, setsampwidth, setnchannels
SetParams(w, rate, width, channels) ==
    [w EXCEPT !.framerate = rate, !.sampwidth = width, !.nchannels = channels]

\* wav_file.writeframes(data)
WriteFrames(w, bytes) == [w EXCEPT !.data = @ \o bytes]

\* ConsumeResults without the wav_params_set test: every AudioResult sets
\* the parameters.
RECURSIVE ConsumeResults_SetsEach(_, _, _)
ConsumeResults_SetsEach(results, w, wav_params_set) ==
    IF results = <<>> THEN [wave |-> w, wav_params_set |-> wav_params_set]
    ELSE LET result == Head(results)
         IN  IF IsAudioResult(result)
             THEN ConsumeResults_SetsEach(
                      Tail(results),
                      WriteFrames(SetParams(w, result.sample_rate_hz,
                                            result.sample_width_bytes,
                                            result.num_channels),
                                  result.audio_bytes),
                      TRUE)
             ELSE ConsumeResults_SetsEach(Tail(results), w, wav_params_set)

\* for result in results: ... (lines 163-172), from the container w.  The
\* value is the container and wav_params_set after the last result.
RECURSIVE ConsumeResults(_, _, _)
ConsumeResults(results, w, wav_params_set) ==
    IF results = <<>> THEN [wave |-> w, wav_params_set |-> wav_params_set]
    ELSE LET result == Head(results)
         IN  IF IsAudioResult(result)
             THEN LET w1 == IF ~wav_params_set
                            THEN SetParams(w, result.sample_rate_hz,
                                           result.sample_width_bytes,
                                           result.num_channels)
                            ELSE w
                  IN  ConsumeResults(Tail(results),
                                     WriteFrames(w1, result.audio_bytes), TRUE)
             ELSE ConsumeResults(Tail(results), w, wav_params_set)

\* Wave_write.close() can write the header: every parameter is set.
CanClose(w) == w.nchannels /= 0 /\ w.sampwidth /= 0 /\ w.framerate /= 0

\* wav_io.getvalue() after close: the header's fields and the frames.
WavBytes(w) ==
    [nchannels |-> w.nchannels, sampwidth |-> w.sampwidth,
     framerate |-> w.framerate, datalength |-> Len(w.data), data |-> w.data]

\* _mimic3_synth with an except clause that does not raise again: the engine's
\* error is swallowed and the container, in the fallback format when no
\* result set one, is returned.
mimic3_synth_Swallows(run) ==
    LET got == ConsumeResults(run.results, NewWave, FALSE)
        w == IF ~got.wav_params_set
             THEN SetParams(got.wave, FallbackFramerate, FallbackSampwidth,
                            FallbackNchannels)
             ELSE got.wave
    IN  IF run.raises \/ CanClose(got.wave)
        THEN [error |-> None, wav_bytes |-> <<WavBytes(w)>>, wave |-> w]
        ELSE [error |-> WaveError, wav_bytes |-> <<>>, wave |-> got.wave]

\* _mimic3_synth with the fallback parameters set after the loop whenever no
\* result set any: an empty WAV is returned when there was no AudioResult.
mimic3_synth_FallbackAlways(run) ==
    LET got == ConsumeResults(run.results, NewWave, FALSE)
        w == IF ~got.wav_params_set
             THEN SetParams(got.wave, FallbackFramerate, FallbackSampwidth,
                            FallbackNchannels)
             ELSE got.wave
    IN  IF run.raises
        THEN [error |-> EngineError, wav_bytes |-> <<>>, wave |-> w]
        ELSE [error |-> None, wav_bytes |-> <<WavBytes(w)>>, wave |-> w]

\* _mimic3_synth on one run of the engine: the error that leaves it ("None"
\* when it returns), the bytes it returns (none when it raises) and the
\* container as it was closed.
mimic3_synth(run) ==
    LET got == ConsumeResults(run.results, NewWave, FALSE)
    IN  IF run.raises
        THEN [error |-> EngineError,
              wav_bytes |-> <<>>,
              wave |-> IF ~got.wav_params_set
                       THEN SetParams(got.wave, FallbackFramerate,
                                      FallbackSampwidth, FallbackNchannels)
                       ELSE got.wave]
        ELSE IF CanClose(got.wave)
             THEN [error |-> None,
                   wav_bytes |-> <<WavBytes(got.wave)>>,
                   wave |-> got.wave]
             ELSE [error |-> WaveError, wav_bytes |-> <<>>, wave |-> got.wave]

(***************************************************************************)
(* The state: the class table, the instances, the threads calling get_tts, *)
(* the files.                                                              *)
(***************************************************************************)

\* The threads that call get_tts on the serving instance, one call each.
NumThreads == 2

\* The instances that are constructed.
NumInstances == 2

Threads == 1..NumThreads
Insts == 1..NumInstances

\* The instance whose get_tts the threads call.
Serving == 1

\* Destination paths (the first is the unit test's).
Paths == {"/tmp/hello.wav", "/tmp/other.wav"}

VARIABLES
    default_voices, \* Mimic3TTSPlugin.default_voices, shared by the instances
    inst,           \* per instance: where its __init__ is (state) and in
                    \*   its loop (k), the locals lang (key) and voice
                    \*   (cand) of the second loop, self.lang, self.config,
                    \*   self.tts.voice, self.tts.speaker, the voices the
                    \*   engine cannot load, the voices preloaded in order,
                    \*   the voice preload_voice raised for, and the tables
                    \*   its lookups of lines 70-72 found, in order (reads)
    lock,           \* per instance: self.lock's holder, 0 when free
    pc,             \* per thread: where it is in get_tts
    req,            \* per thread: the arguments of its call
    def_voice,      \* per thread: the local def_voice
    def_speaker,    \* per thread: the local def_speaker
    wav_bytes,      \* per thread: the local wav_bytes, <<>> when unbound
    ret,            \* per thread: what its call returned, <<>> if nothing
    exc,            \* per thread: the error its call raised, or "None"
    engine_error,   \* per thread: the error the engine raised in its call,
                    \*   or "None"
    files,          \* per path: whether there is a file, the WAV it holds
                    \*   from its start (bytes) and the bytes after that
                    \*   WAV (tail)
    hack_in,        \* the sentence handed to _apply_text_hacks on its own
    hack_out,       \* its result (text, ssml), <<>> before the call
    synth_run,      \* the engine's run in the observed call's _mimic3_synth,
                    \*   <<>> before it
    synth_out       \* what that _mimic3_synth did with it, <<>> before it

plugin_vars ==
    <<default_voices, inst, lock, pc, req, def_voice, def_speaker,
      wav_bytes, ret, exc, engine_error, files>>

text_vars == <<hack_in, hack_out>>

synth_vars == <<synth_run, synth_out>>

vars == <<plugin_vars, text_vars, synth_vars>>

\* A slot in which no instance has been constructed.
NoInstance ==
    [state |-> "none", k |-> 0, key |-> NoneStr, cand |-> None,
     lang |-> NoneStr, config |-> <<>>, voice |-> None,
     speaker |-> None, unavailable |-> {}, preloaded |-> <<>>,
     error |-> None, reads |-> <<>>]

\* A path at which there is no file.
NoFile == [exists |-> FALSE, bytes |-> <<>>, tail |-> <<>>]

\* The arguments of no call.
NoRequest ==
    [sentence |-> <<>>, wav_file |-> None, lang |-> NoneStr, voice |-> None,
     speaker |-> None]

\* The one argument get_tts still reads after line 99: the destination.
LiveArgs(r) == [NoRequest EXCEPT !.wav_file = r.wav_file]

(***************************************************************************)
(* __init__                                                                *)
(***************************************************************************)

\* The voices the preload_langs loop preloads, in order (lines 69-74).
RECURSIVE LangVoices(_, _)
LangVoices(d, langs) ==
    IF langs = <<>> THEN <<>>
    ELSE LET voice == DictGet(d, LookupKey(d, Head(langs)))
         IN  (IF Truthy(voice) THEN <<voice>> ELSE <<>>)
                 \o LangVoices(d, Tail(langs))

\* self.lang (line 39).
SelfLang(lang, config) == OrElse(config.language, lang)

\* default_voices after lines 63-64, self.lang being self_lang.
RegisterDefault(d, self_lang, config) ==
    IF Truthy(config.voice)
    THEN DictSet(d, self_lang, config.voice)
    ELSE d

\* preload_langs (line 41): the configured list, or [self.lang].
PreloadLangs(self_lang, config) ==
    IF config.preload_langs = <<>> THEN <<self_lang>> ELSE config.preload_langs

\* Every preload_voice call of a construction that runs alone and to its
\* end, in order (lines 40-41 and 66-74), the table being d.
PreloadOrder(d, lang, config) ==
    config.preload_voices
        \o LangVoices(d, PreloadLangs(SelfLang(lang, config), config))

\* The calls of order made until preload_voice raises: up to and without the
\* first voice the engine cannot load.
RECURSIVE PreloadedBeforeFailure(_, _)
PreloadedBeforeFailure(order, unavailable) ==
    IF order = <<>> \/ Head(order) \in unavailable THEN <<>>
    ELSE <<Head(order)>> \o PreloadedBeforeFailure(Tail(order), unavailable)

\* The locals of __init__ are gone when it has ended.
Ended(instance, state, error) ==
    [instance EXCEPT !.state = state, !.error = error, !.k = 0,
                     !.key = NoneStr, !.cand = None, !.reads = <<>>]

\* The instance Mimic3TTSPlugin(lang, config) makes when it runs alone, the
\* class table being d0 before it and the engine being unable to load the
\* voices of unavailable: "failed" when preload_voice raised and no instance
\* came out.
Constructed(d0, lang, config, unavailable) ==
    LET self_lang == SelfLang(lang, config)
        order == PreloadOrder(RegisterDefault(d0, self_lang, config),
                              lang, config)
        done == PreloadedBeforeFailure(order, unavailable)
    IN  Ended([NoInstance EXCEPT !.lang = self_lang,
                                 !.config = <<config>>,
                                 !.voice = config.voice,
                                 !.speaker = config.speaker,
                                 !.unavailable = unavailable,
                                 !.preloaded = done],
              IF done = order THEN "ready" ELSE "failed",
              IF done = order THEN None ELSE order[Len(done) + 1])

\* __init__ does not hold any lock; its lines are steps of their own, and
\* other threads run between them (other constructions among them).

\* Lines 36-61 of Mimic3TTSPlugin(lang, config) in slot i: self.lock,
\* self.lang, the two lists and the engine handle with the configured voice
\* and speaker.
CtorStart(i, lang, config, unavailable) ==
    /\ inst[i].state = "none"
    /\ inst' = [inst EXCEPT ![i] =
           [NoInstance EXCEPT !.state = "init",
                              !.lang = SelfLang(lang, config),
                              !.config = <<config>>,
                              !.voice = config.voice,
                              !.speaker = config.speaker,
                              !.unavailable = unavailable]]
    /\ lock' = [lock EXCEPT ![i] = 0]
    /\ UNCHANGED <<default_voices, pc, req, def_voice, def_speaker, wav_bytes,
                   ret, exc, engine_error, files, text_vars, synth_vars>>

\* The instance at the k-th turn of the second loop, or at the end of
\* __init__ when the list has no k-th language.
AtLang(instance, k) ==
    IF k <= Len(PreloadLangs(instance.lang, instance.config[1]))
    THEN [instance EXCEPT !.state = "langs", !.k = k]
    ELSE Ended(instance, "ready", None)

\* The instance at the k-th turn of the first loop, or at the second loop
\* when the list has no k-th voice.
AtVoice(instance, k) ==
    IF k <= Len(instance.config[1].preload_voices)
    THEN [instance EXCEPT !.state = "voices", !.k = k]
    ELSE AtLang(instance, 1)

\* Preloaded with the error caught: the voice is skipped and __init__ goes
\* on.
Preloaded_Tolerant(instance, voice) ==
    IF voice \in instance.unavailable
    THEN instance
    ELSE [instance EXCEPT !.preloaded = Append(@, voice)]

\* self.tts.preload_voice(voice): the voice is loaded, or the engine's error
\* leaves __init__ (nothing catches it).
Preloaded(instance, voice) ==
    IF voice \in instance.unavailable
    THEN Ended(instance, "failed", voice)
    ELSE [instance EXCEPT !.preloaded = Append(@, voice)]

\* Lines 63-64: the configured voice is written to the class table.
Register(i) ==
    /\ inst[i].state = "init"
    /\ default_voices' =
           RegisterDefault(default_voices, inst[i].lang, inst[i].config[1])
    /\ inst' = [inst EXCEPT ![i] = AtVoice(@, 1)]
    /\ UNCHANGED <<lock, pc, req, def_voice, def_speaker, wav_bytes, ret, exc,
                   engine_error, files, text_vars, synth_vars>>

\* Lines 66-67, one turn: self.tts.preload_voice(voice).
PreloadVoice(i) ==
    /\ inst[i].state = "voices"
    /\ LET done == Preloaded(inst[i],
                             inst[i].config[1].preload_voices[inst[i].k])
       IN  inst' = [inst EXCEPT ![i] =
               IF done.state = "failed" THEN done
               ELSE AtVoice(done, inst[i].k + 1)]
    /\ UNCHANGED <<default_voices, lock, pc, req, def_voice, def_speaker,
                   wav_bytes, ret, exc, engine_error, files, text_vars,
                   synth_vars>>

\* The tables a construction has found, d being found now: one after the
\* other, a table found again at once being kept once.
Found(reads, d) ==
    IF reads /= <<>> /\ reads[Len(reads)] = d THEN reads ELSE Append(reads, d)

\* Lines 69-71, one turn: the language of the turn, or its primary subtag
\* when the table has no entry for it.
LangKey(i) ==
    /\ inst[i].state = "langs"
    /\ inst' = [inst EXCEPT
           ![i].key = LookupKey(default_voices,
                          PreloadLangs(inst[i].lang,
                                       inst[i].config[1])[inst[i].k]),
           ![i].reads = Found(@, default_voices),
           ![i].state = "key"]
    /\ UNCHANGED <<default_voices, lock, pc, req, def_voice, def_speaker,
                   wav_bytes, ret, exc, engine_error, files, text_vars,
                   synth_vars>>

\* Line 72: voice = self.default_voices.get(lang).
LangGet(i) ==
    /\ inst[i].state = "key"
    /\ inst' = [inst EXCEPT
           ![i].cand = DictGet(default_voices, inst[i].key),
           ![i].reads = Found(@, default_voices),
           ![i].state = "voice"]
    /\ UNCHANGED <<default_voices, lock, pc, req, def_voice, def_speaker,
                   wav_bytes, ret, exc, engine_error, files, text_vars,
                   synth_vars>>

\* Lines 73-74: if voice: self.tts.preload_voice(voice).
LangPreload(i) ==
    /\ inst[i].state = "voice"
    /\ LET done == IF Truthy(inst[i].cand)
                   THEN Preloaded(inst[i], inst[i].cand)
                   ELSE inst[i]
       IN  inst' = [inst EXCEPT ![i] =
               IF done.state = "failed" THEN done
               ELSE AtLang([done EXCEPT !.key = NoneStr, !.cand = None],
                           inst[i].k + 1)]
    /\ UNCHANGED <<default_voices, lock, pc, req, def_voice, def_speaker,
                   wav_bytes, ret, exc, engine_error, files, text_vars,
                   synth_vars>>

(***************************************************************************)
(* get_tts                                                                 *)
(***************************************************************************)

\* get_tts without the lock.
LockAvailable_Ignored(i) == TRUE

\* with self.lock: the lock can be taken.
LockAvailable(i) == lock[i] = 0

\* Lines 84-90 with the two tests in the other order: lang before voice.
ResolveVoice_LangFirst(d, cur, lang, voice) ==
    IF TruthyStr(lang)
    THEN LET key == LookupKey(d, lang)
         IN  IF key \in DOMAIN d THEN d[key] ELSE cur
    ELSE IF Truthy(voice) THEN voice ELSE cur

\* Lines 84-90 with self.tts.voice = self.default_voices.get(lang) for
\* lines 89-90: a miss clears the voice.
ResolveVoice_MissClears(d, cur, lang, voice) ==
    IF Truthy(voice) THEN voice
    ELSE IF TruthyStr(lang) THEN DictGet(d, LookupKey(d, lang))
         ELSE cur

\* Lines 84-90: the handle's voice after the voice and lang arguments are
\* applied to the handle's voice cur, the table being d.
ResolveVoice(d, cur, lang, voice) ==
    IF Truthy(voice) THEN voice
    ELSE IF TruthyStr(lang)
         THEN LET key == LookupKey(d, lang)
              IN  IF key \in DOMAIN d THEN d[key] ELSE cur
         ELSE cur

\* Lines 91-92 without the test: the speaker argument is always assigned.
ResolveSpeaker_Unconditional(cur, speaker) == speaker

\* Lines 91-92: the handle's speaker after the speaker argument is applied.
ResolveSpeaker(cur, speaker) == IF Truthy(speaker) THEN speaker ELSE cur

\* What the engine is invoked with by thread t (lines 98-99 and 154-161):
\* the handle's voice and speaker, the text, and plain or SSML.
EngineInput(t) ==
    LET hacked == apply_text_hacks(req[t].sentence)
    IN  [voice |-> inst[Serving].voice,
         speaker |-> inst[Serving].speaker,
         text |-> hacked[1],
         ssml |-> hacked[2]]

\* Between the snapshot of the handle and its restoration.
InWindow(t) == pc[t] \in {"synth", "restore"}

\* Thread t calls get_tts and reaches the lock (line 81).
Call(t) ==
    /\ pc[t] = "idle"
    /\ inst[Serving].state = "ready"
    /\ pc' = [pc EXCEPT ![t] = "lock"]
    /\ UNCHANGED <<default_voices, inst, lock, req, def_voice, def_speaker,
                   wav_bytes, ret, exc, engine_error, files,
                   text_vars, synth_vars>>

\* Lines 81-92: thread t takes the lock, snapshots the handle and applies
\* its arguments r.  (The arguments are the thread's own until here, so they
\* are drawn as the lock is taken.)
Swap(t, r) ==
    /\ pc[t] = "lock"
    /\ LockAvailable(Serving)
    /\ lock' = [lock EXCEPT ![Serving] = t]
    /\ req' = [req EXCEPT ![t] = r]
    /\ def_speaker' = [def_speaker EXCEPT ![t] = inst[Serving].speaker]
    /\ def_voice' = [def_voice EXCEPT ![t] = inst[Serving].voice]
    /\ inst' = [inst EXCEPT
           ![Serving].voice = ResolveVoice(default_voices, @, r.lang, r.voice),
           ![Serving].speaker = ResolveSpeaker(@, r.speaker)]
    /\ pc' = [pc EXCEPT ![t] = "synth"]
    /\ UNCHANGED <<default_voices, wav_bytes, ret, exc, engine_error, files,
                   text_vars, synth_vars>>

\* The locals of a call that has ended.
EndCall(t) ==
    /\ req' = [req EXCEPT ![t] = NoRequest]
    /\ def_voice' = [def_voice EXCEPT ![t] = None]
    /\ def_speaker' = [def_speaker EXCEPT ![t] = None]
    /\ wav_bytes' = [wav_bytes EXCEPT ![t] = <<>>]

\* Line 98 when the sentence is no str: None has no replace method.
AttributeError == "AttributeError"

\* Line 98 when _apply_text_hacks raises: the error leaves the with block,
\* which releases the lock, and get_tts.
HacksRaise(t) ==
    /\ pc[t] = "synth"
    /\ req[t].sentence = NoneStr
    /\ lock' = [lock EXCEPT ![Serving] = 0]
    /\ exc' = [exc EXCEPT ![t] = AttributeError]
    /\ pc' = [pc EXCEPT ![t] = "done"]
    /\ EndCall(t)
    /\ UNCHANGED <<default_voices, inst, ret, engine_error, files,
                   text_vars, synth_vars>>

\* Lines 98-99, the engine's run being run, when _mimic3_synth returns.
SynthReturnsStep(t, run) ==
    LET out == mimic3_synth(run)
    IN  /\ pc[t] = "synth"
        /\ req[t].sentence /= NoneStr
        /\ out.error = None
        /\ wav_bytes' = [wav_bytes EXCEPT ![t] = out.wav_bytes]
        /\ engine_error' = [engine_error EXCEPT ![t] =
               IF run.raises THEN EngineError ELSE None]
        /\ req' = [req EXCEPT ![t] = LiveArgs(@)]
        /\ pc' = [pc EXCEPT ![t] = "restore"]
        /\ UNCHANGED <<default_voices, inst, lock, def_voice, def_speaker,
                       ret, exc, files, text_vars>>

\* SynthRaisesStep with the lock acquired and released by hand and no
\* try/finally: the error leaves get_tts with the lock held.
SynthRaisesStep_KeepsLock(t, run) ==
    LET out == mimic3_synth(run)
    IN  /\ pc[t] = "synth"
        /\ req[t].sentence /= NoneStr
        /\ out.error /= None
        /\ exc' = [exc EXCEPT ![t] = out.error]
        /\ engine_error' = [engine_error EXCEPT ![t] =
               IF run.raises THEN EngineError ELSE None]
        /\ pc' = [pc EXCEPT ![t] = "done"]
        /\ EndCall(t)
        /\ UNCHANGED <<default_voices, inst, lock, ret, files, text_vars>>

\* Lines 98-99, the engine's run being run, when _mimic3_synth raises: the
\* error leaves the with block, which releases the lock, and get_tts.
SynthRaisesStep(t, run) ==
    LET out == mimic3_synth(run)
    IN  /\ pc[t] = "synth"
        /\ req[t].sentence /= NoneStr
        /\ out.error /= None
        /\ lock' = [lock EXCEPT ![Serving] = 0]
        /\ exc' = [exc EXCEPT ![t] = out.error]
        /\ engine_error' = [engine_error EXCEPT ![t] =
               IF run.raises THEN EngineError ELSE None]
        /\ pc' = [pc EXCEPT ![t] = "done"]
        /\ EndCall(t)
        /\ UNCHANGED <<default_voices, inst, ret, files, text_vars>>

\* The two, the run not being kept.
SynthReturns(t, run) == SynthReturnsStep(t, run) /\ UNCHANGED synth_vars

SynthRaises(t, run) == SynthRaisesStep(t, run) /\ UNCHANGED synth_vars

\* The run and what _mimic3_synth did with it are kept.
Observed(run) ==
    /\ synth_run' = <<run>>
    /\ synth_out' = <<mimic3_synth(run)>>

\* The two, the run being kept.
SynthReturnsObserved(t, run) == SynthReturnsStep(t, run) /\ Observed(run)

SynthRaisesObserved(t, run) == SynthRaisesStep(t, run) /\ Observed(run)

\* Lines 101-102 and the end of the with block.
Restore(t) ==
    /\ pc[t] = "restore"
    /\ inst' = [inst EXCEPT ![Serving].voice = def_voice[t],
                            ![Serving].speaker = def_speaker[t]]
    /\ lock' = [lock EXCEPT ![Serving] = 0]
    /\ pc' = [pc EXCEPT ![t] = "write"]
    /\ UNCHANGED <<default_voices, req, def_voice, def_speaker, wav_bytes,
                   ret, exc, engine_error, files, text_vars, synth_vars>>

\* Line 105, Path(wav_file).write_bytes(wav_bytes), is outside the with
\* block: no lock is held.  It opens the file for writing, which creates it
\* or cuts it to no bytes; writes the bytes from the start of the file and
\* closes it; then line 107 returns.  Other threads run between the three.

\* The file after open(mode="wb"): it is there and holds no byte.
EmptyFile == [exists |-> TRUE, bytes |-> <<>>, tail |-> <<>>]

\* What a sequence holds beyond its first n elements.
Beyond(seq, n) == SubSeq(seq, n + 1, Len(seq))

\* f.write(view) and close on a handle opened "wb", on the file as it is
\* then: the new bytes lie over the old ones from the start of the file, and
\* what the file holds beyond them stays.  A WAV header has one length, so
\* the file begins with the new WAV, and the frames and tail it held beyond
\* the length of the new frames follow it.
WrittenOver(file, new) ==
    [file EXCEPT !.bytes = new,
                 !.tail = IF file.bytes = <<>> THEN <<>>
                          ELSE Beyond(file.bytes[1].data \o file.tail,
                                      Len(new[1].data))]

\* Line 105, self.open(mode="wb") in Path.write_bytes.
OpenFile(t) ==
    /\ pc[t] = "write"
    /\ files' = [files EXCEPT ![req[t].wav_file] = EmptyFile]
    /\ pc' = [pc EXCEPT ![t] = "opened"]
    /\ UNCHANGED <<default_voices, inst, lock, req, def_voice, def_speaker,
                   wav_bytes, ret, exc, engine_error, text_vars, synth_vars>>

\* Line 105, f.write(view) and the end of the with block of write_bytes.
WriteBytes(t) ==
    /\ pc[t] = "opened"
    /\ files' = [files EXCEPT ![req[t].wav_file] =
           WrittenOver(@, wav_bytes[t])]
    /\ pc' = [pc EXCEPT ![t] = "written"]
    /\ UNCHANGED <<default_voices, inst, lock, req, def_voice, def_speaker,
                   wav_bytes, ret, exc, engine_error, text_vars, synth_vars>>

\* Line 107: return (wav_file, None).
Return(t) ==
    /\ pc[t] = "written"
    /\ ret' = [ret EXCEPT ![t] = <<req[t].wav_file, None>>]
    /\ pc' = [pc EXCEPT ![t] = "done"]
    /\ EndCall(t)
    /\ UNCHANGED <<default_voices, inst, lock, exc, engine_error, files,
                   text_vars, synth_vars>>

(***************************************************************************)
(* Inputs of the plugin.                                                   *)
(***************************************************************************)

\* The lang argument of the constructor (its default).
CtorLangs == {EN_US}

\* The configurations instances are constructed with; a speaker is
\* configured with the voice it is a speaker of (the other voice has one
\* speaker), the two preload lists are configured together, and a language
\* is configured with its voice alone.
Configs ==
    {c \in [language : {NoneStr, DE_DE},
            voice : {None, "en_US/vctk_low", "en_US/ljspeech_low"},
            speaker : {None, "p225"},
            preload_voices :
                {<<>>, <<"en_UK/apope_low", "de_DE/thorsten_low">>},
            preload_langs : {<<>>, <<EN_GB, XX_YY, EN_NZ>>}] :
        /\ (c.voice = "en_US/vctk_low") = (c.speaker /= None)
        /\ (c.preload_voices = <<>>) = (c.preload_langs = <<>>)
        /\ c.language /= NoneStr
               => (c.speaker /= None /\ c.preload_voices = <<>>)
        /\ c.voice = "en_US/ljspeech_low" => c.preload_voices = <<>>}

\* The sets of voices the engine may be unable to load.
Unavailable == {{}, {"de_DE/thorsten_low"}, {"en_US/cmu-arctic_low"}}

\* The configurations of the serving instance: the default one, and one
\* with a voice and a speaker.
ServingConfigs ==
    {c \in Configs : /\ c.language = NoneStr
                     /\ c.preload_voices = <<>>
                     /\ c.preload_langs = <<>>
                     /\ (c.voice = None) = (c.speaker = None)}

\* The arguments of get_tts (the sentence is the unit test's).
Sentences == {<<"h", "e", "l", "l", "o", " ", "w", "o", "r", "l", "d">>}

\* The engine's runs while it serves get_tts: audio results only.
ServingRuns ==
    {run \in EngineRuns :
        \A k \in 1..Len(run.results) : IsAudioResult(run.results[k])}

Requests ==
    [sentence : Sentences,
     wav_file : Paths,
     lang : {NoneStr, EN_GB, EN_NZ, XX_YY},
     voice : {None, "", "en_UK/apope_low"},
     speaker : {None, "p239"}]

\* The threads being alike, the last one calls with any arguments, and the
\* others write the first path, with no lang, voice and speaker or with a
\* voice and a speaker.
RequestsOf(t) ==
    {r \in Requests :
        \/ t = NumThreads
        \/ /\ r.wav_file = "/tmp/hello.wav"
           /\ r.lang = NoneStr
           /\ <<r.voice, r.speaker>>
                  \in {<<None, None>>, <<"en_UK/apope_low", "p239">>}}

(***************************************************************************)
(* Spec: one constructed instance and the threads that call its get_tts.   *)
(***************************************************************************)

\* No thread has called yet and no file is written.
InitCalls ==
    /\ pc = [t \in Threads |-> "idle"]
    /\ req = [t \in Threads |-> NoRequest]
    /\ def_voice = [t \in Threads |-> None]
    /\ def_speaker = [t \in Threads |-> None]
    /\ wav_bytes = [t \in Threads |-> <<>>]
    /\ ret = [t \in Threads |-> <<>>]
    /\ exc = [t \in Threads |-> None]
    /\ engine_error = [t \in Threads |-> None]
    /\ files = [p \in Paths |-> NoFile]

\* The state after the serving instance is constructed.
Init ==
    /\ \E lang \in CtorLangs, config \in ServingConfigs :
          /\ default_voices = RegisterDefault(BaseDefaultVoices,
                                              SelfLang(lang, config), config)
          /\ inst = [i \in Insts |->
                 IF i = Serving
                 THEN Constructed(BaseDefaultVoices, lang, config, {})
                 ELSE NoInstance]
    /\ lock = [i \in Insts |-> 0]
    /\ InitCalls
    /\ hack_in = <<>>
    /\ hack_out = <<>>
    /\ synth_run = <<>>
    /\ synth_out = <<>>

Next ==
    \/ \E t \in Threads : Call(t)
    \/ \E t \in Threads : \E r \in RequestsOf(t) : Swap(t, r)
    \/ \E t \in Threads, run \in ServingRuns : SynthReturns(t, run)
    \/ \E t \in Threads, run \in ServingRuns : SynthRaises(t, run)
    \/ \E t \in Threads : Restore(t)
    \/ \E t \in Threads : OpenFile(t)
    \/ \E t \in Threads : WriteBytes(t)
    \/ \E t \in Threads : Return(t)

Spec == Init /\ [][Next]_vars

(***************************************************************************)
(* SpecLive: the calls go on.  A thread that has called get_tts is         *)
(* scheduled again and again; the engine ends every synthesis, by a result *)
(* or by an error; a thread waiting for a lock that stays free gets it.    *)
(***************************************************************************)

\* The arguments of the calls: a sentence that is a str or None, a voice or
\* none.
LiveRequests ==
    [sentence : Sentences \cup {NoneStr},
     wav_file : {"/tmp/hello.wav"},
     lang : {NoneStr},
     voice : {None, "en_UK/apope_low"},
     speaker : {None}]

\* The engine's runs: it yields an audio result or none, and ends or raises.
LiveRuns == {run \in ServingRuns : Len(run.results) <= 1}

NextLive ==
    \/ \E t \in Threads : Call(t)
    \/ \E t \in Threads, r \in LiveRequests : Swap(t, r)
    \/ \E t \in Threads : HacksRaise(t)
    \/ \E t \in Threads, run \in LiveRuns : SynthReturns(t, run)
    \/ \E t \in Threads, run \in LiveRuns : SynthRaises(t, run)
    \/ \E t \in Threads : Restore(t)
    \/ \E t \in Threads : OpenFile(t)
    \/ \E t \in Threads : WriteBytes(t)
    \/ \E t \in Threads : Return(t)

\* A step of thread t after it has called.
Proceed(t) ==
    \/ \E r \in LiveRequests : Swap(t, r)
    \/ HacksRaise(t)
    \/ \E run \in LiveRuns : SynthReturns(t, run)
    \/ \E run \in LiveRuns : SynthRaises(t, run)
    \/ Restore(t)
    \/ OpenFile(t)
    \/ WriteBytes(t)
    \/ Return(t)

Fairness == \A t \in Threads : WF_vars(Proceed(t))

SpecLive == Init /\ [][NextLive]_vars /\ Fairness

(***************************************************************************)
(* SpecInit: the class and the construction of its instances.              *)
(***************************************************************************)

\* The class statement has run and no instance is constructed.
InitClass ==
    /\ default_voices = BaseDefaultVoices
    /\ inst = [i \in Insts |-> NoInstance]
    /\ lock = [i \in Insts |-> 0]
    /\ InitCalls
    /\ hack_in = <<>>
    /\ hack_out = <<>>
    /\ synth_run = <<>>
    /\ synth_out = <<>>

\* Constructions start slot by slot and run side by side; the voices the
\* engine cannot load are the same for all of them.
NextInit ==
    \/ \E i \in Insts, lang \in CtorLangs, config \in Configs,
          unavailable \in Unavailable :
           /\ \A j \in 1..(i - 1) :
                  /\ inst[j].state /= "none"
                  /\ inst[j].unavailable = unavailable
           /\ CtorStart(i, lang, config, unavailable)
    \/ \E i \in Insts : Register(i)
    \/ \E i \in Insts : PreloadVoice(i)
    \/ \E i \in Insts : LangKey(i)
    \/ \E i \in Insts : LangGet(i)
    \/ \E i \in Insts : LangPreload(i)

SpecInit == InitClass /\ [][NextInit]_vars

(***************************************************************************)
(* SpecSynth: one call of get_tts, whatever the engine yields in it.       *)
(***************************************************************************)

\* The thread whose call is observed.
Caller == 1

\* The most results the engine yields in the observed call.
MaxSegments == 3

\* What the engine may yield in the observed call: audio in two formats,
\* and a result that is no audio.
Segments ==
    {AudioResult(16000, 2, 1, <<7, 8>>), AudioResult(24000, 1, 2, <<9>>),
     MarkResult}

\* The engine's runs in the observed call.
SynthRuns ==
    [results : UNION {[1..n -> Segments] : n \in 0..MaxSegments},
     raises : BOOLEAN]

NextSynth ==
    \/ Call(Caller)
    \/ \E r \in Requests : Swap(Caller, r)
    \/ \E run \in SynthRuns : SynthReturnsObserved(Caller, run)
    \/ \E run \in SynthRuns : SynthRaisesObserved(Caller, run)
    \/ Restore(Caller)
    \/ OpenFile(Caller)
    \/ WriteBytes(Caller)
    \/ Return(Caller)

SpecSynth == Init /\ [][NextSynth]_vars

(***************************************************************************)
(* Inputs of the text workarounds.                                         *)
(***************************************************************************)

\* The longest input text, in tokens.
MaxTokens == 4

\* A quoted letter, the pattern of re.subn.
QuotedA == <<"'", "A", "'">>

\* The pieces input texts are made of: every character a rule reads, a
\* character no rule reads, the two abbreviations and a quoted letter.
Tokens == {<<"A">>, <<"B">>, <<" ">>, <<"<">>, <<";">>, <<"'">>, <<"x">>,
           <<"\n">>, AM, PM, QuotedA}

\* The pieces of the texts with characters beyond the letters and the space
\* of ASCII: a vertical tab and a no-break space (whitespace for strip), a
\* letter of Latin-1 (a word character for \b), and what the rules read
\* next to them.
WideTokens == {<<"">>, <<" ">>, <<"é">>, <<"A">>, <<"B">>, <<" ">>, <<"<">>}

RECURSIVE Flatten(_)
Flatten(ts) == IF ts = <<>> THEN <<>> ELSE Head(ts) \o Flatten(Tail(ts))

\* Sentences a voice assistant hands over: a time of day glued to the next
\* sentence, a lone letter, a quoted letter inside a sentence.
EightAmNext == <<"8", " ", "a", ".", "m", ".", "n", "e", "x", "t">>
LetterA == <<"A", ";">>
TheLetterQ ==
    <<"t", "h", "e", " ", "l", "e", "t", "t", "e", "r", " ", "'", "Q", "'",
      " ", "i", "s", " ", "h", "e", "r", "e">>
ExampleTexts == {EightAmNext, LetterA, TheLetterQ}

\* The sentence is any text of at most MaxTokens tokens, or an example.
InitText ==
    /\ default_voices = BaseDefaultVoices
    /\ inst = [i \in Insts |-> NoInstance]
    /\ lock = [i \in Insts |-> 0]
    /\ InitCalls
    /\ \/ \E n \in 0..MaxTokens :
             \E ts \in [1..n -> Tokens] : hack_in = Flatten(ts)
       \/ \E n \in 0..MaxTokens :
             \E ts \in [1..n -> WideTokens] : hack_in = Flatten(ts)
       \/ hack_in \in ExampleTexts
    /\ hack_out = <<>>
    /\ synth_run = <<>>
    /\ synth_out = <<>>

\* One call of _apply_text_hacks.
ApplyTextHacks ==
    /\ hack_out = <<>>
    /\ hack_out' = apply_text_hacks(hack_in)
    /\ UNCHANGED <<hack_in, plugin_vars, synth_vars>>

NextText == ApplyTextHacks

SpecText == InitText /\ [][NextText]_vars

(***************************************************************************)
(* The claims.                                                             *)
(***************************************************************************)

\* C1: when a get_tts call leaves its critical section, by reaching the end
\* of the with block or by an error the engine raised, the handle's voice and
\* speaker are the ones the call found (its snapshot def_voice, def_speaker).
C1_HandleRestoredOnEveryExit ==
    [][\A t \in Threads :
          (/\ pc[t] \in {"synth", "restore"}
           /\ pc'[t] \notin {"synth", "restore"}
           /\ (pc'[t] = "write" \/ engine_error'[t] = EngineError))
              => /\ inst'[Serving].voice = def_voice[t]
                 /\ inst'[Serving].speaker = def_speaker[t]]_vars

\* C2: at most one thread is between its snapshot of the handle and its
\* restoration, and that thread holds the lock.
C2_WindowsNeverOverlap ==
    /\ Cardinality({t \in Threads : InWindow(t)}) <= 1
    /\ \A t \in Threads : InWindow(t) => lock[Serving] = t

\* A thread waits at the lock while another is in its window.
C2_Witness ==
    \E t, u \in Threads :
        /\ t /= u
        /\ pc[t] = "synth"
        /\ pc[u] = "lock"
        /\ lock[Serving] = t

\* C3: once the engine has raised in a call, the call has ended with that
\* error: it returned nothing, holds no WAV bytes, and can neither open nor
\* write its destination; and every file there is was opened by a call in
\* which the engine did not raise.
C3_EngineErrorPropagates ==
    /\ \A t \in Threads :
          engine_error[t] /= None
              => /\ pc[t] = "done"
                 /\ exc[t] = engine_error[t]
                 /\ ret[t] = <<>>
                 /\ wav_bytes[t] = <<>>
                 /\ ~ENABLED OpenFile(t)
                 /\ ~ENABLED WriteBytes(t)
    /\ \A p \in Paths :
          files[p].exists
              => \E u \in Threads :
                    /\ engine_error[u] = None
                    /\ \/ ret[u] = <<p, None>>
                       \/ pc[u] \in {"opened", "written"} /\ req[u].wav_file = p

\* The engine raised in a call, which ended with the engine's error.
C3_Witness ==
    \E t \in Threads :
        /\ engine_error[t] = EngineError
        /\ exc[t] = EngineError
        /\ pc[t] = "done"

\* C4: the step by which a call whose synthesis succeeded returns gives
\* (wav_file, None) with the wav_file passed in, and the file at that path
\* then holds exactly the bytes _mimic3_synth returned to the call.
C4_ReturnsPathAndWritesBytes ==
    [][\A t \in Threads :
          (pc[t] = "written" /\ pc'[t] /= "written")
              => /\ pc'[t] = "done"
                 /\ ret'[t] = <<req[t].wav_file, None>>
                 /\ exc'[t] = None
                 /\ wav_bytes[t] /= <<>>
                 /\ files'[req[t].wav_file].exists
                 /\ files'[req[t].wav_file].bytes = wav_bytes[t]
                 /\ files'[req[t].wav_file].tail = <<>>]_vars

\* C5: with a voice argument, the engine is invoked with the handle's voice
\* equal to it, whatever the lang argument.
C5_VoiceOverrideVerbatim ==
    \A t \in Threads :
        (pc[t] = "synth" /\ Truthy(req[t].voice))
            => EngineInput(t).voice = req[t].voice

\* A call with a voice argument and a lang argument whose default voice is
\* another voice is about to invoke the engine.
C5_Witness ==
    \E t \in Threads :
        /\ pc[t] = "synth"
        /\ Truthy(req[t].voice)
        /\ TruthyStr(req[t].lang)
        /\ LookupKey(default_voices, req[t].lang) \in DOMAIN default_voices
        /\ default_voices[LookupKey(default_voices, req[t].lang)] /= req[t].voice

\* The text before the first "-" of a language tag.
PrimarySubtag(lang) == split_first(lang, "-")

\* C6: with no voice argument and a lang argument, the engine is invoked
\* with the entry of the full tag when there is one, and with the entry of
\* the primary subtag when only that one is there.
C6_LangFallsBackToPrimarySubtag ==
    \A t \in Threads :
        (pc[t] = "synth" /\ ~Truthy(req[t].voice) /\ TruthyStr(req[t].lang))
            => /\ req[t].lang \in DOMAIN default_voices
                    => EngineInput(t).voice = default_voices[req[t].lang]
               /\ (/\ req[t].lang \notin DOMAIN default_voices
                   /\ PrimarySubtag(req[t].lang) \in DOMAIN default_voices)
                    => EngineInput(t).voice
                           = default_voices[PrimarySubtag(req[t].lang)]

\* A call with no voice argument and a lang argument that only its primary
\* subtag resolves is about to invoke the engine.
C6_Witness ==
    \E t \in Threads :
        /\ pc[t] = "synth"
        /\ ~Truthy(req[t].voice)
        /\ TruthyStr(req[t].lang)
        /\ req[t].lang \notin DOMAIN default_voices
        /\ PrimarySubtag(req[t].lang) \in DOMAIN default_voices
        /\ def_voice[t] /= default_voices[PrimarySubtag(req[t].lang)]

\* C7: with no voice argument and a lang argument that neither the full tag
\* nor the primary subtag resolves, the call raised nothing and the engine
\* is invoked with the handle's voice as the call found it.
C7_LookupMissKeepsVoice ==
    \A t \in Threads :
        (/\ pc[t] = "synth"
         /\ ~Truthy(req[t].voice)
         /\ TruthyStr(req[t].lang)
         /\ req[t].lang \notin DOMAIN default_voices
         /\ PrimarySubtag(req[t].lang) \notin DOMAIN default_voices)
            => /\ exc[t] = None
               /\ EngineInput(t).voice = def_voice[t]

\* Such a call is about to invoke the engine, on a handle that has a voice.
C7_Witness ==
    \E t \in Threads :
        /\ pc[t] = "synth"
        /\ ~Truthy(req[t].voice)
        /\ req[t].lang = XX_YY
        /\ PrimarySubtag(req[t].lang) \notin DOMAIN default_voices
        /\ def_voice[t] /= None

\* C8: the engine is invoked with the handle's speaker equal to the speaker
\* argument when there is one, and as the call found it when there is none.
C8_SpeakerOverride ==
    \A t \in Threads :
        pc[t] = "synth"
            => IF Truthy(req[t].speaker)
               THEN EngineInput(t).speaker = req[t].speaker
               ELSE EngineInput(t).speaker = def_speaker[t]

\* A call with a speaker argument and a voice taken from its lang argument
\* is about to invoke the engine on a handle that had another speaker.
C8_Witness ==
    \E t \in Threads :
        /\ pc[t] = "synth"
        /\ Truthy(req[t].speaker)
        /\ ~Truthy(req[t].voice)
        /\ TruthyStr(req[t].lang)
        /\ def_speaker[t] /= None
        /\ def_speaker[t] /= req[t].speaker

\* The default voice an instance resolves for a language, the class table
\* being d: None when neither the tag nor its primary subtag has one.
ResolvedDefault(d, lang) == DictGet(d, LookupKey(d, lang))

\* The languages whose resolution is observed.
ObservedLangs == {EN, EN_US, EN_GB, EN_NZ, DE, DE_DE, XX_YY}

\* C9: constructing an instance changes neither the shared table nor the
\* default voice any instance resolves for a language.
C9_ConstructionLeavesSharedTable ==
    [][/\ default_voices' = default_voices
       /\ \A lang \in ObservedLangs :
             ResolvedDefault(default_voices', lang)
                 = ResolvedDefault(default_voices, lang)]_vars

\* The two-character rule fires on s.
TwoCharRuleFires(s) == Len(s) = 2 /\ s[2] = ";"

\* The quoted-letter rule fires on s: s holds a quote, an uppercase letter
\* and a quote in a row.
QuotedLetterRuleFires(s) ==
    \E i \in 1..(Len(s) - 2) :
        s[i] = "'" /\ s[i + 1] \in Upper /\ s[i + 2] = "'"

\* The text without its leading whitespace starts with "<".
TrimmedStartsWithAngle(s) ==
    \E i \in 1..Len(s) :
        /\ s[i] = "<"
        /\ \A j \in 1..(i - 1) : s[j] \in Whitespace

\* C10: is_ssml is true when the rewritten text, trimmed, starts with "<",
\* and otherwise false unless the two-character rule or the quoted-letter
\* rule fires.
C10_SsmlFlag ==
    hack_out /= <<>>
        => LET s == Rewritten(hack_in)
           IN  /\ TrimmedStartsWithAngle(s) => hack_out[2] = TRUE
               /\ (/\ ~TrimmedStartsWithAngle(s)
                   /\ ~TwoCharRuleFires(s)
                   /\ ~QuotedLetterRuleFires(s)) => hack_out[2] = FALSE

\* _apply_text_hacks returned is_ssml = true for a text that starts with
\* whitespace before its "<" and on which neither rule fires.
C10_Witness ==
    /\ hack_out /= <<>>
    /\ hack_out[2] = TRUE
    /\ hack_in /= <<>>
    /\ hack_in[1] \in Whitespace
    /\ ~TwoCharRuleFires(Rewritten(hack_in))
    /\ ~QuotedLetterRuleFires(Rewritten(hack_in))

\* C11: for a text of exactly two characters whose second is ";", the
\* result is the spell-out directive around the first character alone, with
\* is_ssml true; no quoted-letter replacement is made in it.
C11_TwoCharacterRule ==
    (hack_out /= <<>> /\ Len(hack_in) = 2 /\ hack_in[2] = ";")
        => /\ hack_out[1] = SayAsOpen \o <<hack_in[1]>> \o SayAsClose
           /\ hack_out[2] = TRUE

\* _apply_text_hacks returned for "A;".
C11_Witness ==
    /\ hack_in = LetterA
    /\ hack_out /= <<>>
    /\ hack_out[2] = TRUE

\* The text with every spell-out directive around an uppercase letter put
\* back to the letter in single quotes.
RECURSIVE Unspell(_)
Unspell(s) ==
    IF s = <<>> THEN <<>>
    ELSE IF /\ startswith(s, SayAsOpen)
            /\ Len(s) >= Len(SayAsOpen) + 1 + Len(SayAsClose)
            /\ s[Len(SayAsOpen) + 1] \in Upper
            /\ startswith(SubSeq(s, Len(SayAsOpen) + 2, Len(s)), SayAsClose)
         THEN <<"'", s[Len(SayAsOpen) + 1], "'">>
                  \o Unspell(SubSeq(s, Len(SayAsOpen) + Len(SayAsClose) + 2,
                                    Len(s)))
         ELSE <<Head(s)>> \o Unspell(Tail(s))

\* The number of quoted letters of s, counted from the left without overlap.
RECURSIVE QuotedLetters(_)
QuotedLetters(s) ==
    IF Len(s) < 3 THEN 0
    ELSE IF s[1] = "'" /\ s[2] \in Upper /\ s[3] = "'"
         THEN 1 + QuotedLetters(SubSeq(s, 4, Len(s)))
         ELSE QuotedLetters(Tail(s))

\* The piece of s at i is piece.
StandsAt(s, i, piece) ==
    /\ i + Len(piece) - 1 <= Len(s)
    /\ \A k \in 1..Len(piece) : s[i + k - 1] = piece[k]

\* The number of spell-out directives of s.
Directives(s) == Cardinality({i \in 1..Len(s) : StandsAt(s, i, SayAsOpen)})

\* The text with a space put after every " a.m." and every " p.m.", in one
\* pass from the left.
RECURSIVE SpaceAfterAbbrev(_)
SpaceAfterAbbrev(s) ==
    IF s = <<>> THEN <<>>
    ELSE IF startswith(s, AM) \/ startswith(s, PM)
         THEN SubSeq(s, 1, Len(AM)) \o <<" ">>
                  \o SpaceAfterAbbrev(SubSeq(s, Len(AM) + 1, Len(s)))
         ELSE <<Head(s)>> \o SpaceAfterAbbrev(Tail(s))

\* At i there is an uppercase letter that a space or the end of the text
\* follows; with nl, a newline that ends the text counts as its end.
LetterUnit(s, i, nl) ==
    /\ i <= Len(s)
    /\ s[i] \in Upper
    /\ \/ i = Len(s)
       \/ s[i + 1] = " "
       \/ nl /\ i + 1 = Len(s) /\ s[i + 1] = "\n"

\* The letters of the longest run of such letters that starts at i.
RECURSIVE RunLetters(_, _, _)
RunLetters(s, i, nl) ==
    IF ~LetterUnit(s, i, nl) THEN <<>>
    ELSE IF i < Len(s) /\ s[i + 1] = " "
         THEN <<s[i]>> \o RunLetters(s, i + 2, nl)
         ELSE <<s[i]>>

\* The letters joined by periods, then a period and one space.
RECURSIVE Dotted(_)
Dotted(letters) ==
    IF Len(letters) = 1 THEN <<letters[1], ".", " ">>
    ELSE <<letters[1], ".">> \o Dotted(Tail(letters))

\* The text from i on with every run of two or more single uppercase letters
\* collapsed; a letter is single when no word character stands before it.
RECURSIVE CollapseRunsFrom(_, _, _)
CollapseRunsFrom(s, i, nl) ==
    IF i > Len(s) THEN <<>>
    ELSE LET letters == IF i = 1 \/ ~IsWord(s[i - 1])
                        THEN RunLetters(s, i, nl)
                        ELSE <<>>
             after == i + 2 * Len(letters) - 1
         IN  IF Len(letters) >= 2
             THEN Dotted(letters)
                      \o CollapseRunsFrom(s,
                             IF after <= Len(s) /\ s[after] = " "
                             THEN after + 1 ELSE after,
                             nl)
             ELSE <<s[i]>> \o CollapseRunsFrom(s, i + 1, nl)

CollapseRuns(s, nl) == CollapseRunsFrom(s, 1, nl)

\* C12: for a text the two-character rule does not match, s being the text
\* as the a.m./p.m. and acronym rules leave it: no quoted letter is left in
\* the result, there is one directive for each quoted letter of s, putting
\* the quoted letters back for the directives gives s (nothing else is
\* changed), is_ssml is true when a replacement was made, and with no
\* replacement the text is s and is_ssml is whether s, trimmed, starts
\* with "<".
C12_QuotedLetterRule ==
    (hack_out /= <<>> /\ ~TwoCharRuleFires(hack_in))
        => LET s == CollapseRuns(SpaceAfterAbbrev(hack_in), TRUE)
               out == hack_out[1]
           IN  /\ ~QuotedLetterRuleFires(out)
               /\ Directives(out) = QuotedLetters(s)
               /\ Unspell(out) = s
               /\ QuotedLetterRuleFires(s) => hack_out[2] = TRUE
               /\ ~QuotedLetterRuleFires(s)
                     => /\ out = s
                        /\ hack_out[2] = TrimmedStartsWithAngle(s)

\* _apply_text_hacks returned for a text with two quoted letters.
C12_Witness ==
    /\ hack_out /= <<>>
    /\ hack_in = QuotedA \o <<" ">> \o QuotedA
    /\ hack_out[2] = TRUE

AB == <<"A", " ", "B">>
ABDotted == <<"A", ".", "B", ".", " ">>

\* C13 as stated: the result is the text with every run of two or more
\* single uppercase letters, each followed by a space or the end of the
\* string, collapsed, and nothing else changed by this rule ("A B" gives
\* "A.B. " with is_ssml false).
C13_AcronymRule_EndOfString ==
    (hack_out /= <<>> /\ ~TwoCharRuleFires(hack_in))
        => /\ Unspell(hack_out[1])
                  = CollapseRuns(SpaceAfterAbbrev(hack_in), FALSE)
           /\ hack_in = AB => hack_out = <<ABDotted, FALSE>>

\* C13, amended: the same, a newline that ends the string counting as its
\* end for the last letter of a run (the newline stays after the collapsed
\* run).
C13_AcronymRule ==
    (hack_out /= <<>> /\ ~TwoCharRuleFires(hack_in))
        => /\ Unspell(hack_out[1])
                  = CollapseRuns(SpaceAfterAbbrev(hack_in), TRUE)
           /\ hack_in = AB => hack_out = <<ABDotted, FALSE>>

\* _apply_text_hacks collapsed a run that a newline ends.
C13_Witness ==
    /\ hack_out /= <<>>
    /\ hack_in = AB \o <<"\n">>
    /\ hack_out = <<ABDotted \o <<"\n">>, FALSE>>

\* The number of places of s where abbrev stands.
Occurrences(s, abbrev) ==
    Cardinality({i \in 1..Len(s) : StandsAt(s, i, abbrev)})

\* A space follows every place of s where abbrev stands.
SpaceFollowsEvery(s, abbrev) ==
    \A i \in 1..Len(s) :
        StandsAt(s, i, abbrev)
            => /\ i + Len(abbrev) <= Len(s)
               /\ s[i + Len(abbrev)] = " "

\* C14: in the result a space follows every " a.m." and every " p.m.", of
\* which there are as many as in the input, and the result is at least one
\* character longer for each; when no other rule changes the text, the result
\* is the input with those spaces put in ("8 a.m.next" gives "8 a.m. next").
C14_SpaceAfterAmPm ==
    (hack_out /= <<>> /\ ~TwoCharRuleFires(hack_in))
        => LET spaced == SpaceAfterAbbrev(hack_in)
               out == hack_out[1]
           IN  /\ SpaceFollowsEvery(out, AM)
               /\ SpaceFollowsEvery(out, PM)
               /\ Occurrences(out, AM) = Occurrences(hack_in, AM)
               /\ Occurrences(out, PM) = Occurrences(hack_in, PM)
               /\ Len(Unspell(out)) >= Len(hack_in) + Occurrences(hack_in, AM)
                                            + Occurrences(hack_in, PM)
               /\ (/\ CollapseRuns(spaced, TRUE) = spaced
                   /\ ~QuotedLetterRuleFires(spaced))
                     => /\ out = spaced
                        /\ Len(out) = Len(hack_in) + Occurrences(hack_in, AM)
                                          + Occurrences(hack_in, PM)

\* _apply_text_hacks returned "8 a.m. next" for "8 a.m.next".
C14_Witness ==
    /\ hack_in = EightAmNext
    /\ hack_out /= <<>>
    /\ hack_out[1] = <<"8", " ", "a", ".", "m", ".", " ", "n", "e", "x", "t">>

\* The audio segments of a run, in the order the engine yields them.
AudioOf(run) == SelectSeq(run.results, IsAudioResult)

\* The raw PCM bytes of the segments, one segment after the other.
PcmOf(segments) ==
    Flatten([k \in 1..Len(segments) |-> segments[k].audio_bytes])

\* The WAV whose format is that of segment first and whose frames are pcm.
WavOf(first, pcm) ==
    [nchannels |-> first.num_channels,
     sampwidth |-> first.sample_width_bytes,
     framerate |-> first.sample_rate_hz,
     datalength |-> Len(pcm),
     data |-> pcm]

\* C15: when the engine yields at least one audio segment and does not
\* raise, _mimic3_synth returns the WAV with the format of the first segment
\* (whatever the format of the later ones) and, as frames, the bytes of every
\* segment in the order yielded; these are the bytes the call holds and then
\* leaves in the file it returns.
C15_FormatOfFirstBytesOfAll ==
    (/\ synth_run /= <<>>
     /\ ~synth_run[1].raises
     /\ AudioOf(synth_run[1]) /= <<>>)
        => LET segments == AudioOf(synth_run[1])
               wav == WavOf(segments[1], PcmOf(segments))
           IN  /\ synth_out[1].error = None
               /\ synth_out[1].wav_bytes = <<wav>>
               /\ exc[Caller] = None
               /\ pc[Caller] \in {"restore", "write", "opened", "written", "done"}
               /\ pc[Caller] /= "done" => wav_bytes[Caller] = <<wav>>
               /\ pc[Caller] = "written"
                     => files[req[Caller].wav_file].bytes = <<wav>>
               /\ pc[Caller] = "done"
                     => /\ ret[Caller] /= <<>>
                        /\ files[ret[Caller][1]].bytes = <<wav>>

\* The engine yielded two audio segments of different formats with another
\* result between them, and the call wrote its file.
C15_Witness ==
    /\ synth_run /= <<>>
    /\ ~synth_run[1].raises
    /\ Len(synth_run[1].results) = 3
    /\ IsAudioResult(synth_run[1].results[1])
    /\ ~IsAudioResult(synth_run[1].results[2])
    /\ IsAudioResult(synth_run[1].results[3])
    /\ synth_run[1].results[1] /= synth_run[1].results[3]
    /\ ret[Caller] /= <<>>
    /\ files[ret[Caller][1]].bytes /= <<>>

\* C19: when the engine yields no audio segment and does not raise,
\* _mimic3_synth returns nothing and fails with the container's own error,
\* the container having no format (the fallback one is not set) and no frame;
\* the call ends with that error, returns nothing and no file is written.
C19_NoAudioNoWav ==
    (/\ synth_run /= <<>>
     /\ ~synth_run[1].raises
     /\ AudioOf(synth_run[1]) = <<>>)
        => /\ synth_out[1].error = WaveError
           /\ synth_out[1].wav_bytes = <<>>
           /\ synth_out[1].wave.framerate = 0
           /\ synth_out[1].wave.sampwidth = 0
           /\ synth_out[1].wave.nchannels = 0
           /\ synth_out[1].wave.data = <<>>
           /\ pc[Caller] = "done"
           /\ exc[Caller] = WaveError
           /\ engine_error[Caller] = None
           /\ ret[Caller] = <<>>
           /\ ~ENABLED OpenFile(Caller)
           /\ \A p \in Paths : files[p] = NoFile

\* The engine yielded results, none of them audio, and did not raise; the
\* call ended with the container's error.
C19_Witness ==
    /\ synth_run /= <<>>
    /\ ~synth_run[1].raises
    /\ synth_run[1].results /= <<>>
    /\ AudioOf(synth_run[1]) = <<>>
    /\ exc[Caller] = WaveError

\* The default voice for a language, the table being d: the entry of the
\* tag, else the entry of its primary subtag, else none.
DefaultVoiceFor(d, lang) ==
    IF lang \in DOMAIN d THEN d[lang]
    ELSE IF PrimarySubtag(lang) \in DOMAIN d THEN d[PrimarySubtag(lang)]
         ELSE None

\* The preload-languages list of an instance: the configured one, or the
\* instance's own language.
PreloadLangsOf(instance) ==
    IF instance.config[1].preload_langs = <<>>
    THEN <<instance.lang>>
    ELSE instance.config[1].preload_langs

\* The voices a construction is to preload, in order, the table being d:
\* the preload-voices list, then the default voice of each preload language
\* that has one.
ExpectedPreloads(d, instance) ==
    LET langs == PreloadLangsOf(instance)
    IN  instance.config[1].preload_voices
            \o SelectSeq([k \in 1..Len(langs) |-> DefaultVoiceFor(d, langs[k])],
                         LAMBDA voice : voice /= None)

\* The places of order whose voice the engine cannot load.
FailingAt(order, unavailable) ==
    {k \in 1..Len(order) : order[k] \in unavailable}

\* The least number of a non-empty set of numbers.
Least(S) == CHOOSE k \in S : \A m \in S : k <= m

\* The voices of a table.
VoicesOf(d) == {d[lang] : lang \in DOMAIN d}

\* The table every lookup of a construction found, when they all found the
\* same one (d when it has made none): <<>> when two of them differed.
TableFound(instance, d) ==
    IF instance.reads = <<>> THEN <<d>>
    ELSE IF Len(instance.reads) = 1 THEN instance.reads ELSE <<>>

\* C16: the step in which preload_voice raises ends the construction with
\* that error and no instance: the voice is one the engine cannot load, the
\* step preloads nothing, and the construction takes no step after it (no
\* later voice is preloaded, nothing is tried again).  A construction does
\* not preload a voice the engine cannot load, and when its lookups all
\* found one table, it fails exactly at the first such voice of its preload
\* order, having preloaded the voices before it, and comes out only when
\* there is none.
C16_PreloadFailureAborts ==
    [][\A i \in Insts :
          LET found == TableFound(inst[i], default_voices)
              order == ExpectedPreloads(found[1], inst[i])
              failing == FailingAt(order, inst[i].unavailable)
          IN  /\ inst[i].state = "failed" => inst'[i] = inst[i]
              /\ \A k \in 1..Len(inst'[i].preloaded) :
                     inst'[i].preloaded[k] \notin inst'[i].unavailable
              /\ (inst[i].state /= "failed" /\ inst'[i].state = "failed")
                     => /\ inst'[i].error \in inst[i].unavailable
                        /\ inst'[i].preloaded = inst[i].preloaded
                        /\ found /= <<>>
                               => /\ failing /= {}
                                  /\ inst'[i].error = order[Least(failing)]
                                  /\ inst'[i].preloaded
                                         = SubSeq(order, 1, Least(failing) - 1)
              /\ (inst[i].state /= "ready" /\ inst'[i].state = "ready"
                  /\ found /= <<>>)
                     => failing = {}]_vars

\* A construction failed after it had preloaded a voice, with voices left
\* to preload after the one that raised.
C16_Witness ==
    \E i \in Insts :
        /\ inst[i].state = "failed"
        /\ inst[i].preloaded /= <<>>
        /\ inst[i].error \in inst[i].unavailable
        /\ inst[i].config[1].preload_langs /= <<>>
        /\ Len(inst[i].config[1].preload_voices) = 2
        /\ inst[i].error = inst[i].config[1].preload_voices[2]

\* C17: a construction that comes out has preloaded first the voices of the
\* preload-voices list, in order, and then, for each preload language (the
\* instance's own language when the list is not configured), in the order
\* of the list, the default voice the table has for it under its tag or
\* else under its primary subtag, a language with none being skipped
\* without error (stated of the table its lookups found when they all found
\* the same one; whatever they found, each of these voices is a voice of a
\* table it found); the default voice of the instance's own language is the
\* configured voice when there is one, and is the one preloaded for that
\* language.
C17_PreloadOrder ==
    [][\A i \in Insts :
          (inst[i].state /= "ready" /\ inst'[i].state = "ready")
              => LET config == inst'[i].config[1]
                     given == config.preload_voices
                     preloaded == inst'[i].preloaded
                     found == TableFound(inst[i], default_voices)
                 IN  /\ inst'[i].error = None
                     /\ Len(preloaded) >= Len(given)
                     /\ SubSeq(preloaded, 1, Len(given)) = given
                     /\ \A k \in (Len(given) + 1)..Len(preloaded) :
                            \E r \in 1..Len(inst[i].reads) :
                                preloaded[k] \in VoicesOf(inst[i].reads[r])
                     /\ found /= <<>>
                            => preloaded = ExpectedPreloads(found[1], inst'[i])
                     /\ Truthy(config.voice)
                            => DefaultVoiceFor(default_voices', inst'[i].lang)
                                   = config.voice
                     /\ (Truthy(config.voice) /\ config.preload_langs = <<>>)
                            => preloaded = given \o <<config.voice>>]_vars

\* C18: only a call inside its critical section holds the lock, the step by
\* which a call leaves its critical section (by reaching its end or by an
\* error of _apply_text_hacks or of _mimic3_synth) leaves the lock free, and
\* every call that has reached the lock enters its critical section and
\* ends.
C18_LockReleasedCallsProceed ==
    /\ [](\A t \in Threads : lock[Serving] = t => InWindow(t))
    /\ [][\A t \in Threads :
             (InWindow(t) /\ ~InWindow(t)') => lock'[Serving] = 0]_vars
    /\ \A t \in Threads : (pc[t] = "lock") ~> (pc[t] = "synth")
    /\ \A t \in Threads : (pc[t] = "lock") ~> (pc[t] = "done")

\* A call has failed in _apply_text_hacks or by the engine's error, and
\* another call is in its critical section after it.
C18_Witness ==
    \E t, u \in Threads :
        /\ t /= u
        /\ pc[t] = "done"
        /\ exc[t] \in {EngineError, AttributeError}
        /\ pc[u] = "synth"
        /\ lock[Serving] = u

====
